---------------------------- MODULE Spec2Model ----------------------------
(***************************************************************************)
(* A model of the Rubik's-cuboid move engine (faces.py, cube.py) and of    *)
(* the reachable-state graph explorer (graph.py).                          *)
(*                                                                         *)
(* A grid (numpy 2-D array of Color) is a sequence of rows.  A cube object *)
(* is a record: its six grids, its wiring and its permitted-move set.      *)
(* An operation that can raise returns a record [ok, ...] whose other      *)
(* field is the state the operation leaves behind.                         *)
(***************************************************************************)
EXTENDS Integers, Sequences, FiniteSets, TLC

VARIABLES
    dims,                  \* (height, width, length) of the run
    permitted_movements,   \* the permitted_movements argument of the run
    heap,                  \* driver: the live RubikCube objects, oldest first
    err,                   \* driver: outcome of the last make_movements call
    face_rc,               \* rotation run: the cube whose faces are rotated
    base,                  \* rotation run: grids when the current turn sequence began
    face,                  \* rotation run: the face being turned ("" before any)
    turns,                 \* rotation run: sum of the turn amounts since base
    nseq,                  \* rotation run: number of rotate calls since base
    nturn,                 \* rotation run: number of rotate calls so far
    raised,                \* rotation run: TRUE once a rotate call raised
    g,                     \* explorer: the graph [nodes, adj, id]
    queue,                 \* explorer: the frontier list
    current_rc,            \* explorer: the cube being expanded
    order,                 \* explorer: iteration order of the permitted set
    m_idx,                 \* explorer: position of the for loop in order
    pc,                    \* explorer: control point of make_graph
    file                   \* explorer: the lines generate_file has written

vars == <<dims, permitted_movements, heap, err, face_rc, base, face, turns,
          nseq, nturn, raised, g, queue, current_rc, order, m_idx, pc, file>>

driverVars == <<heap, err>>
rotVars == <<face_rc, base, face, turns, nseq, nturn, raised>>
graphVars == <<g, queue, current_rc, order, m_idx, pc, file>>

---------------------------------------------------------------------------
(* Bounds of the model *)

MaxObjs == 2      \* driver: cube objects the client keeps alive
MaxTurns == 3     \* rotation run: rotate calls per run
MaxNodes == 6     \* explorer: nodes a run may hold

\* The dimension triples the runs are drawn from.
DimsSet ==
    { <<1, 1, 1>>, <<2, 2, 2>>, <<2, 2, 1>>, <<1, 2, 1>>, <<3, 2, 1>>, <<3, 3, 3>> }

---------------------------------------------------------------------------
(* Symbol primitives *)

\* Color members used by RubikCube.from_dims
Color == {"white", "green", "red", "blue", "orange", "yellow"}

\* Direction members
Direc == {"U", "R", "D", "L"}

\* RubikCube.faces: the fixed order (up, left, front, right, back, down)
faces == <<"up", "left", "front", "right", "back", "down">>

FaceNames == {faces[i] : i \in 1..6}

\* CubeMove members: a face letter and a modifier ("" | "2" | "'")
CubeMove ==
    { "U", "U2", "U'", "D", "D2", "D'", "L", "L2", "L'",
      "R", "R2", "R'", "F", "F2", "F'", "B", "B2", "B'" }

\* CubeMove.move_the_cube: the face a move token turns
MoveFace(m) ==
    CASE m \in {"U", "U2", "U'"} -> "up"
      [] m \in {"D", "D2", "D'"} -> "down"
      [] m \in {"L", "L2", "L'"} -> "left"
      [] m \in {"R", "R2", "R'"} -> "right"
      [] m \in {"F", "F2", "F'"} -> "front"
      [] OTHER -> "back"

\* CubeMove.move_the_cube: the turn amount of a move token
MoveTimes(m) ==
    CASE m \in {"U", "D", "L", "R", "F", "B"} -> 1
      [] m \in {"U2", "D2", "L2", "R2", "F2", "B2"} -> 2
      [] OTHER -> 3

\* Direction.generate_slice: the row or column of a grid a direction selects
generate_slice(d) ==
    CASE d = "U" -> [axis |-> "row", last |-> FALSE]
      [] d = "D" -> [axis |-> "row", last |-> TRUE]
      [] d = "L" -> [axis |-> "col", last |-> FALSE]
      [] OTHER   -> [axis |-> "col", last |-> TRUE]

---------------------------------------------------------------------------
(* Grids: numpy arrays *)

Height(grid) == Len(grid)
Width(grid) == Len(grid[1])

\* np.tile(Color(color), shape)
from_color(color, shape) == [i \in 1..shape[1] |-> [j \in 1..shape[2] |-> color]]

\* Face.__getitem__ with a TupleSlice: the selected row or column, forward
getitem(grid, s) ==
    IF s.axis = "row"
    THEN grid[IF s.last THEN Height(grid) ELSE 1]
    ELSE [i \in 1..Height(grid) |-> grid[i][IF s.last THEN Width(grid) ELSE 1]]

\* Mutant of setitem: the index is ignored and the value is assigned to the
\* whole array, central_face[:] = item.
setitem_all(grid, s, item) ==
    LET n == IF s.axis = "row" THEN Width(grid) ELSE Height(grid)
        val == IF Len(item) = n THEN item ELSE [i \in 1..n |-> item[1]]
    IN  IF Len(item) # n /\ Len(item) # 1
        THEN [ok |-> FALSE, grid |-> grid]
        ELSE [ok |-> TRUE,
              grid |-> IF s.axis = "row"
                       THEN [i \in 1..Height(grid) |-> val]
                       ELSE [i \in 1..Height(grid) |-> [j \in 1..Width(grid) |-> val[i]]]]

\* Face.__setitem__ with a TupleSlice: numpy assignment.  A value of the
\* slice's length is stored, a value of length 1 is broadcast, any other
\* length raises ValueError and leaves the grid as it was.
setitem(grid, s, item) ==
    LET n == IF s.axis = "row" THEN Width(grid) ELSE Height(grid)
        val == IF Len(item) = n THEN item ELSE [i \in 1..n |-> item[1]]
        r == IF s.last THEN Height(grid) ELSE 1
        c == IF s.last THEN Width(grid) ELSE 1
    IN  IF Len(item) # n /\ Len(item) # 1
        THEN [ok |-> FALSE, grid |-> grid]
        ELSE [ok |-> TRUE,
              grid |-> IF s.axis = "row"
                       THEN [grid EXCEPT ![r] = val]
                       ELSE [i \in 1..Height(grid) |-> [grid[i] EXCEPT ![c] = val[i]]]]

\* np.rot90(grid, k): k counter-clockwise quarter turns
rot90(grid, k) ==
    LET h == Height(grid)
        w == Width(grid)
    IN  CASE k % 4 = 0 -> grid
          [] k % 4 = 1 -> [i \in 1..w |-> [j \in 1..h |-> grid[j][w + 1 - i]]]
          [] k % 4 = 2 -> [i \in 1..h |-> [j \in 1..w |-> grid[h + 1 - i][w + 1 - j]]]
          [] OTHER     -> [i \in 1..w |-> [j \in 1..h |-> grid[h + 1 - j][i]]]

---------------------------------------------------------------------------
(* faces.py: pieces and rotation *)

\* Directions that indicate whether a piece should be inverted, per slot
_LIST_DIRECTIONS_TO_INV == << {"U", "R"}, {"U"}, {"D", "L"}, {"D"} >>

\* list(reversed(piece)) if direction is negative
_invert_piece(piece, direction) ==
    IF direction < 0
    THEN [i \in 1..Len(piece) |-> piece[Len(piece) + 1 - i]]
    ELSE piece

\* Mutant of _rotate_pieces: the deque is not rotated for a half turn.
_rotate_pieces_norot(list_of_pieces, times) ==
    LET even == <<1, 1, -1, -1>>
        odd == <<1, -1, -1, 1>>
        list_of_directions == <<even, odd, even, odd>>
        new == [i \in 1..4 |->
                   _invert_piece(list_of_pieces[i], list_of_directions[i][times + 1])]
    IN  IF times = 2 THEN new ELSE [j \in 1..4 |-> new[((j - 1 - times) % 4) + 1]]

\* Mutant of _rotate_pieces: the piece coming from the left slot is appended twice.
_rotate_pieces_dup(list_of_pieces, times) ==
    LET even == <<1, 1, -1, -1>>
        odd == <<1, -1, -1, 1>>
        list_of_directions == <<even, odd, even, odd>>
        new == [i \in 1..4 |->
                   _invert_piece(list_of_pieces[IF i = 3 THEN 4 ELSE i],
                                 list_of_directions[i][times + 1])]
    IN  [j \in 1..4 |-> new[((j - 1 - times) % 4) + 1]]

\* _rotate_pieces: invert per the even/odd tables, then deque.rotate(times)
_rotate_pieces(list_of_pieces, times) ==
    LET even == <<1, 1, -1, -1>>
        odd == <<1, -1, -1, 1>>
        list_of_directions == <<even, odd, even, odd>>
        new == [i \in 1..4 |->
                   _invert_piece(list_of_pieces[i], list_of_directions[i][times + 1])]
    IN  [j \in 1..4 |-> new[((j - 1 - times) % 4) + 1]]

\* Face._invert_pieces: invert the pieces of the slots whose stored
\* direction is in the slot's set
_invert_pieces(_direc_list, list_of_pieces) ==
    [i \in 1..4 |->
        IF _direc_list[i] \in _LIST_DIRECTIONS_TO_INV[i]
        THEN _invert_piece(list_of_pieces[i], -1)
        ELSE list_of_pieces[i]]

\* The stored directions of a face: the second components of its wiring
DirecList(wire, f) == [i \in 1..4 |-> wire[f][i][2]]

\* Face.pieces (getter): the four neighbour strips in slot order
pieces(grids, wire, f) ==
    _invert_pieces(DirecList(wire, f),
        [i \in 1..4 |-> getitem(grids[wire[f][i][1]], generate_slice(wire[f][i][2]))])

\* Face.pieces (setter): the four assignments are made in slot order and
\* the first that raises stops the rest
RECURSIVE SetFrom(_, _, _, _, _)
SetFrom(grids, wire, f, value, i) ==
    IF i > 4 THEN [ok |-> TRUE, grids |-> grids]
    ELSE LET n == wire[f][i][1]
             r == setitem(grids[n], generate_slice(wire[f][i][2]), value[i])
         IN  IF r.ok
             THEN SetFrom([grids EXCEPT ![n] = r.grid], wire, f, value, i + 1)
             ELSE [ok |-> FALSE, grids |-> grids]

set_pieces(grids, wire, f, value_to_set) ==
    SetFrom(grids, wire, f, _invert_pieces(DirecList(wire, f), value_to_set), 1)

\* Mutant of rotate: the face's own grid is turned the other way, by
\* np.rot90(central_face, times).
rotate_wrongsense(grids, wire, f, times) ==
    LET t == times % 4
        r == set_pieces(grids, wire, f, _rotate_pieces(pieces(grids, wire, f), t))
    IN  IF r.ok
        THEN [ok |-> TRUE, grids |-> [r.grids EXCEPT ![f] = rot90(@, t)]]
        ELSE r

\* Face.rotate: move the neighbour strips, then turn the face's own grid
rotate(grids, wire, f, times) ==
    LET t == times % 4
        r == set_pieces(grids, wire, f, _rotate_pieces(pieces(grids, wire, f), t))
    IN  IF r.ok
        THEN [ok |-> TRUE, grids |-> [r.grids EXCEPT ![f] = rot90(@, 4 - t)]]
        ELSE r

---------------------------------------------------------------------------
(* cube.py: construction, equality, copy and moves *)

\* Mutant of Wiring: back is wired like front, its right slot to right and
\* its left slot to left.
Wiring_backlikefront ==
    [f \in FaceNames |->
        CASE f = "front" -> << <<"up", "D">>, <<"right", "L">>, <<"down", "U">>, <<"left", "R">> >>
          [] f = "back"  -> << <<"up", "U">>, <<"right", "L">>, <<"down", "D">>, <<"left", "R">> >>
          [] f = "left"  -> << <<"up", "L">>, <<"front", "L">>, <<"down", "L">>, <<"back", "R">> >>
          [] f = "right" -> << <<"up", "R">>, <<"back", "L">>, <<"down", "R">>, <<"front", "R">> >>
          [] f = "up"    -> << <<"back", "U">>, <<"right", "U">>, <<"front", "U">>, <<"left", "U">> >>
          [] OTHER       -> << <<"front", "D">>, <<"right", "D">>, <<"back", "D">>, <<"left", "D">> >>]

\* RubikCube.__init__: the add_faces calls, (neighbour, direction) per slot
\* in the order up, right, down, left
Wiring ==
    [f \in FaceNames |->
        CASE f = "front" -> << <<"up", "D">>, <<"right", "L">>, <<"down", "U">>, <<"left", "R">> >>
          [] f = "back"  -> << <<"up", "U">>, <<"left", "L">>, <<"down", "D">>, <<"right", "R">> >>
          [] f = "left"  -> << <<"up", "L">>, <<"front", "L">>, <<"down", "L">>, <<"back", "R">> >>
          [] f = "right" -> << <<"up", "R">>, <<"back", "L">>, <<"down", "R">>, <<"front", "R">> >>
          [] f = "up"    -> << <<"back", "U">>, <<"right", "U">>, <<"front", "U">>, <<"left", "U">> >>
          [] OTHER       -> << <<"front", "D">>, <<"right", "D">>, <<"back", "D">>, <<"left", "D">> >>]

\* The default argument permitted_movements = None, as a value that can be
\* compared with a set of moves
None == {"None"}

\* RubikCube.__init__: permitted_movements or {m for m in CubeMove}
PermittedOf(pm) == IF pm = None \/ pm = {} THEN CubeMove ELSE pm

\* RubikCube.from_dims: the solved cube of the given dimensions
from_dims(d, pm) ==
    LET height == d[1]
        width == d[2]
        length == d[3]
    IN  [grids |-> [f \in FaceNames |->
                      CASE f = "front" -> from_color("red", <<height, width>>)
                        [] f = "back"  -> from_color("orange", <<height, width>>)
                        [] f = "left"  -> from_color("green", <<height, length>>)
                        [] f = "right" -> from_color("blue", <<height, length>>)
                        [] f = "up"    -> from_color("white", <<length, width>>)
                        [] OTHER       -> from_color("yellow", <<length, width>>)],
         wire |-> Wiring,
         permitted_movements |-> PermittedOf(pm)]

\* RubikCube.__eq__: the six grids compared in the order of faces
CubeEq(a, b) == \A i \in 1..6 : a.grids[faces[i]] = b.grids[faces[i]]


---------------------------------------------------------------------------
(* The heap of the driver.  Object k of the heap holds the arrays it owns  *)
(* (grids) and, per face, the object whose array its Face refers to (arr). *)

\* The six grids an object sees through its Face references
View(h, k) == [f \in FaceNames |-> h[h[k].arr[f]].grids[f]]

\* Writing grids through the Face references of object k
Store(h, k, grids) ==
    [j \in DOMAIN h |->
        [h[j] EXCEPT !.grids = [f \in FaceNames |->
                                   IF h[k].arr[f] = j THEN grids[f] ELSE @[f]]]]

\* RubikCube.from_dims as object n of the heap
NewCube(d, pm, n) ==
    LET c == from_dims(d, pm)
    IN  [grids |-> c.grids, arr |-> [f \in FaceNames |-> n], wire |-> c.wire,
         permitted_movements |-> c.permitted_movements]

\* Mutant of __deepcopy__: a shallow copy, whose faces refer to the
\* receiver's arrays.
__copy__(h, r, n) ==
    [grids |-> View(h, r), arr |-> h[r].arr, wire |-> Wiring,
     permitted_movements |-> PermittedOf(h[r].permitted_movements)]

\* RubikCube.__deepcopy__: object n, a copy of object r with its own arrays,
\* wired again by the constructor, with a copy of the permitted set
__deepcopy__(h, r, n) ==
    [grids |-> View(h, r), arr |-> [f \in FaceNames |-> n], wire |-> Wiring,
     permitted_movements |-> PermittedOf(h[r].permitted_movements)]

\* Mutant of _make_a_move_from_cube_move: the permitted set is not checked.
_make_a_move_unchecked(h, r, movement) ==
    LET n == Len(h) + 1
        h1 == Append(h, __deepcopy__(h, r, n))
        res == rotate(View(h1, n), h1[n].wire, MoveFace(movement), MoveTimes(movement))
    IN  [err |-> IF res.ok THEN "none" ELSE "ValueError",
         heap |-> Store(h1, n, res.grids), rc |-> n]

\* RubikCube._make_a_move_from_cube_move on object r: the check, the deep
\* copy (object Len(h) + 1) and movement.move_the_cube on the copy
_make_a_move_from_cube_move(h, r, movement) ==
    IF movement \notin h[r].permitted_movements
    THEN [err |-> "NotPermittedMovementError", heap |-> h, rc |-> r]
    ELSE LET n == Len(h) + 1
             h1 == Append(h, __deepcopy__(h, r, n))
             res == rotate(View(h1, n), h1[n].wire, MoveFace(movement), MoveTimes(movement))
         IN  [err |-> IF res.ok THEN "none" ELSE "ValueError",
              heap |-> Store(h1, n, res.grids), rc |-> n]

\* RubikCube._make_movements_from_list: rc = self, then one move after another
RECURSIVE FromList(_, _, _, _)
FromList(h, rc, list_of_moves, i) ==
    IF i > Len(list_of_moves) THEN [err |-> "none", heap |-> h, rc |-> rc]
    ELSE LET step == _make_a_move_from_cube_move(h, rc, list_of_moves[i])
         IN  IF step.err # "none" THEN step
             ELSE FromList(step.heap, step.rc, list_of_moves, i + 1)

_make_movements_from_list(h, r, list_of_moves) == FromList(h, r, list_of_moves, 1)

\* CubeMove.parse_move: a token that names no move raises
parse_ok(m_str) == m_str \in CubeMove

\* RubikCube._make_movements_from_str: every token is parsed before any move
_make_movements_from_str(h, r, list_of_str) ==
    IF \E i \in 1..Len(list_of_str) : ~parse_ok(list_of_str[i])
    THEN [err |-> "ParseMoveError", heap |-> h, rc |-> r]
    ELSE _make_movements_from_list(h, r, list_of_str)

\* What the client is left with after a call on a heap of n0 objects: the
\* objects it had and, when the call returned a new cube that it keeps,
\* that cube as object n0 + 1.  The other copies are garbage.
Collect(out, n0, keep) ==
    IF out.err = "none" /\ out.rc > n0 /\ keep
    THEN LET c == out.heap[out.rc]
         IN  Append(SubSeq(out.heap, 1, n0),
                    [c EXCEPT !.arr = [f \in FaceNames |->
                                          IF @[f] = out.rc THEN n0 + 1 ELSE @[f]]])
    ELSE SubSeq(out.heap, 1, n0)

---------------------------------------------------------------------------
(* Values the variables of the other runs hold while one run is checked *)

NoCube == [grids |-> <<>>, wire |-> <<>>, permitted_movements |-> {}]

DriverIdle == heap = <<>> /\ err = "none"

RotIdle ==
    /\ face_rc = NoCube
    /\ base = <<>>
    /\ face = ""
    /\ turns = 0
    /\ nseq = 0
    /\ nturn = 0
    /\ raised = FALSE

GraphIdle ==
    /\ g = [nodes |-> <<>>, adj |-> <<>>, id |-> <<>>]
    /\ queue = <<>>
    /\ current_rc = NoCube
    /\ order = <<>>
    /\ m_idx = 0
    /\ pc = "idle"
    /\ file = <<>>

---------------------------------------------------------------------------
(* The rotation run: a client turns the faces of one cube in place with   *)
(* Face.rotate.  base, face, turns and nseq remember the current sequence *)
(* of turns of one face.                                                  *)

InitRotate ==
    /\ dims \in DimsSet
    /\ permitted_movements = None
    /\ face_rc = from_dims(dims, permitted_movements)
    /\ base = face_rc.grids
    /\ face = ""
    /\ turns = 0
    /\ nseq = 0
    /\ nturn = 0
    /\ raised = FALSE
    /\ DriverIdle
    /\ GraphIdle

\* face_rc.<f>.rotate(k)
FaceRotate(f, k) ==
    /\ ~raised
    /\ nturn < MaxTurns
    /\ LET r == rotate(face_rc.grids, face_rc.wire, f, k)
       IN  /\ face_rc' = [face_rc EXCEPT !.grids = r.grids]
           /\ raised' = ~r.ok
    /\ base' = IF f = face THEN base ELSE face_rc.grids
    /\ turns' = IF f = face THEN (turns + k) % 4 ELSE k
    /\ nseq' = IF f = face THEN nseq + 1 ELSE 1
    /\ face' = f
    /\ nturn' = nturn + 1
    /\ UNCHANGED <<dims, permitted_movements, driverVars, graphVars>>

NextRotate == \E f \in FaceNames, k \in 1..3 : FaceRotate(f, k)

SpecRotate == InitRotate /\ [][NextRotate]_vars


---------------------------------------------------------------------------
(* Construction: a client builds one cube with RubikCube.from_dims or with *)
(* RubikCube(up, left, front, right, back, down) from faces of its own.    *)

\* The dims arguments and the face shapes the constructions are drawn from
ConstructDims == {<<h, w, l>> : h \in 0..2, w \in 0..2, l \in 0..2}

ShapeChoices == {<<1, 1>>, <<1, 2>>, <<2, 1>>, <<2, 2>>}

\* The colour from_dims gives each face
FaceColor ==
    [f \in FaceNames |->
        CASE f = "front" -> "red"
          [] f = "back"  -> "orange"
          [] f = "left"  -> "green"
          [] f = "right" -> "blue"
          [] f = "up"    -> "white"
          [] OTHER       -> "yellow"]

InitConstruct ==
    /\ dims = <<1, 1, 1>>
    /\ permitted_movements = None
    /\ DriverIdle
    /\ RotIdle
    /\ GraphIdle

\* RubikCube.from_dims(d) for d of non-negative numbers.  np.tile returns
\* an empty array for a repetition of zero, and nothing else looks at the
\* dimensions.
FromDims(d) ==
    /\ heap = <<>>
    /\ dims' = d
    /\ heap' = <<NewCube(d, permitted_movements, 1)>>
    /\ err' = "none"
    /\ UNCHANGED <<permitted_movements, rotVars, graphVars>>

\* RubikCube(up, left, front, right, back, down) from faces of the given
\* shapes: the faces are wired and the dims are read off front and right.
RubikCube(shapes) ==
    /\ heap = <<>>
    /\ heap' = << [grids |-> [f \in FaceNames |-> from_color(FaceColor[f], shapes[f])],
                   arr |-> [f \in FaceNames |-> 1],
                   wire |-> Wiring,
                   permitted_movements |-> PermittedOf(permitted_movements)] >>
    /\ dims' = <<shapes["front"][1], shapes["front"][2], shapes["right"][2]>>
    /\ err' = "none"
    /\ UNCHANGED <<permitted_movements, rotVars, graphVars>>

NextConstruct ==
    \/ \E d \in ConstructDims : FromDims(d)
    \/ \E shapes \in [FaceNames -> ShapeChoices] : RubikCube(shapes)

SpecConstruct == InitConstruct /\ [][NextConstruct]_vars

---------------------------------------------------------------------------
(* The driver: a client builds one cube and calls make_movements on the   *)
(* cubes it holds.                                                        *)

\* The permitted_movements arguments the runs are drawn from
PermittedChoices ==
    { {}, {"U2", "D2"}, {"U2", "R2"}, {"U"}, {"F", "F'", "U2"} }

\* The list arguments of make_movements
ListInputs ==
    { <<>>, <<"U2", "R2">>, <<"U", "U'">>, <<"F", "U">>, <<"R2", "F'", "R2">> }

\* The string arguments of make_movements, as str.split() returns them
StrInputs ==
    { <<"U2", "R2">>, <<"F'">>, <<"L2", "X">>, <<"U", "D2">> }

\* The dimension triples of the driver's runs
DriverDims == { <<1, 1, 1>>, <<2, 2, 2>>, <<2, 2, 1>> }

Init ==
    /\ dims \in DriverDims
    /\ permitted_movements \in PermittedChoices \cup {None}
    /\ heap = <<NewCube(dims, permitted_movements, 1)>>
    /\ err = "none"
    /\ RotIdle
    /\ GraphIdle

\* The part of a call common to its three forms
Call(out) ==
    /\ heap' = Collect(out, Len(heap), Len(heap) < MaxObjs)
    /\ err' = out.err
    /\ UNCHANGED <<dims, permitted_movements, rotVars, graphVars>>

\* heap[r].make_movements(movement), movement a CubeMove
MakeMove(r, movement) == Call(_make_a_move_from_cube_move(heap, r, movement))

\* heap[r].make_movements(list_of_moves)
MakeMovementsList(r, list_of_moves) == Call(_make_movements_from_list(heap, r, list_of_moves))

\* heap[r].make_movements(str_of_moves)
MakeMovementsStr(r, list_of_str) == Call(_make_movements_from_str(heap, r, list_of_str))

Next ==
    \E r \in DOMAIN heap :
        \/ \E movement \in CubeMove : MakeMove(r, movement)
        \/ \E list_of_moves \in ListInputs : MakeMovementsList(r, list_of_moves)
        \/ \E list_of_str \in StrInputs : MakeMovementsStr(r, list_of_str)

Spec == Init /\ [][Next]_vars


---------------------------------------------------------------------------
(* graph.py: make_graph.  g.nodes is the node dictionary in insertion     *)
(* order, g.adj maps the set of an edge's end nodes to its "move" set,    *)
(* g.id maps the position of a node in g.nodes to its id.                 *)

\* RubikCube.__hash__: hash(self.faces), a function of the six grids
hash(c) == [i \in 1..6 |-> c.grids[faces[i]]]

\* A cube as the only object of a heap
AsHeap(c) ==
    << [grids |-> c.grids, arr |-> [f \in FaceNames |-> 1], wire |-> c.wire,
        permitted_movements |-> c.permitted_movements] >>

\* RubikCube.make_movements with a CubeMove, on cube values: the outcome
\* and the returned cube
make_movements(c, movement) ==
    LET out == _make_a_move_from_cube_move(AsHeap(c), 1, movement)
    IN  [err |-> out.err,
         rc |-> IF out.err = "none"
                THEN [grids |-> View(out.heap, out.rc), wire |-> out.heap[out.rc].wire,
                      permitted_movements |-> out.heap[out.rc].permitted_movements]
                ELSE c]

\* Dictionary lookup of a cube among the nodes: by hash, then by __eq__
NodeIndex(nodes, c) ==
    {i \in 1..Len(nodes) : hash(nodes[i]) = hash(c) /\ CubeEq(nodes[i], c)}

\* other_rc in g.nodes
InNodes(nodes, c) == NodeIndex(nodes, c) # {}

\* The node of the graph equal to c
NodeOf(nodes, c) == nodes[CHOOSE i \in NodeIndex(nodes, c) : TRUE]

\* Mutant of GraphStep: a new node is added to the graph but not to the queue.
GraphStep_noqueue(gr, q, cur, m, other) ==
    LET fresh == ~InNodes(gr.nodes, other)
        nodes1 == IF fresh THEN Append(gr.nodes, other) ELSE gr.nodes
        e == {cur, NodeOf(nodes1, other)}
        adj1 == IF e \in DOMAIN gr.adj THEN gr.adj
                ELSE [x \in DOMAIN gr.adj \cup {e} |->
                         IF x = e THEN {} ELSE gr.adj[x]]
    IN  [g |-> [gr EXCEPT !.nodes = nodes1, !.adj = [adj1 EXCEPT ![e] = @ \cup {m}]],
         queue |-> q]

\* Mutant of GraphStep: the edge is made only under the test for a new
\* node, so no edge is recorded between two nodes already in the graph.
GraphStep_nested(gr, q, cur, m, other) ==
    LET fresh == ~InNodes(gr.nodes, other)
        nodes1 == IF fresh THEN Append(gr.nodes, other) ELSE gr.nodes
        e == {cur, NodeOf(nodes1, other)}
        adj1 == IF e \in DOMAIN gr.adj \/ ~fresh THEN gr.adj
                ELSE [x \in DOMAIN gr.adj \cup {e} |->
                         IF x = e THEN {} ELSE gr.adj[x]]
    IN  [g |-> [gr EXCEPT !.nodes = nodes1,
                          !.adj = IF e \in DOMAIN adj1
                                  THEN [adj1 EXCEPT ![e] = @ \cup {m}] ELSE adj1],
         queue |-> IF fresh THEN Append(q, other) ELSE q]

\* Mutant of GraphStep: other_rc is queued without the test for a new node.
GraphStep_requeue(gr, q, cur, m, other) ==
    LET fresh == ~InNodes(gr.nodes, other)
        nodes1 == IF fresh THEN Append(gr.nodes, other) ELSE gr.nodes
        e == {cur, NodeOf(nodes1, other)}
        adj1 == IF e \in DOMAIN gr.adj THEN gr.adj
                ELSE [x \in DOMAIN gr.adj \cup {e} |->
                         IF x = e THEN {} ELSE gr.adj[x]]
    IN  [g |-> [gr EXCEPT !.nodes = nodes1, !.adj = [adj1 EXCEPT ![e] = @ \cup {m}]],
         queue |-> Append(q, other)]

\* Mutant of GraphStep: other_rc is added and queued without the test
\* other_rc not in g.nodes, as with cubes compared by identity.
GraphStep_always(gr, q, cur, m, other) ==
    LET nodes1 == Append(gr.nodes, other)
        e == {cur, NodeOf(nodes1, other)}
        adj1 == IF e \in DOMAIN gr.adj THEN gr.adj
                ELSE [x \in DOMAIN gr.adj \cup {e} |->
                         IF x = e THEN {} ELSE gr.adj[x]]
    IN  [g |-> [gr EXCEPT !.nodes = nodes1, !.adj = [adj1 EXCEPT ![e] = @ \cup {m}]],
         queue |-> Append(q, other)]

\* Mutant of GraphStep: add_edge(..., move=set()) is called without the test
\* other_rc not in g[current_rc], so the move set of an edge is emptied
\* each time the edge is met again.
GraphStep_reset(gr, q, cur, m, other) ==
    LET fresh == ~InNodes(gr.nodes, other)
        nodes1 == IF fresh THEN Append(gr.nodes, other) ELSE gr.nodes
        e == {cur, NodeOf(nodes1, other)}
        adj1 == [x \in DOMAIN gr.adj \cup {e} |-> IF x = e THEN {} ELSE gr.adj[x]]
    IN  [g |-> [gr EXCEPT !.nodes = nodes1, !.adj = [adj1 EXCEPT ![e] = @ \cup {m}]],
         queue |-> IF fresh THEN Append(q, other) ELSE q]

\* The body of the for loop after other_rc is made: the node, the queue,
\* the edge and its move set
GraphStep(gr, q, cur, m, other) ==
    LET fresh == ~InNodes(gr.nodes, other)
        nodes1 == IF fresh THEN Append(gr.nodes, other) ELSE gr.nodes
        e == {cur, NodeOf(nodes1, other)}
        adj1 == IF e \in DOMAIN gr.adj THEN gr.adj
                ELSE [x \in DOMAIN gr.adj \cup {e} |->
                         IF x = e THEN {} ELSE gr.adj[x]]
    IN  [g |-> [gr EXCEPT !.nodes = nodes1, !.adj = [adj1 EXCEPT ![e] = @ \cup {m}]],
         queue |-> IF fresh THEN Append(q, other) ELSE q]

\* The orders in which a for loop may iterate over a set
RECURSIVE Orders(_)
Orders(S) ==
    IF S = {} THEN {<<>>}
    ELSE UNION {{<<x>> \o o : o \in Orders(S \ {x})} : x \in S}

\* The dimension triples and permitted_movements arguments of the explorer's runs
GraphDims == DimsSet

GraphPermitted ==
    { None, {}, {"B2"}, {"U2", "D2"}, {"U2", "R2"}, {"U"}, {"F", "F'"}, {"F", "U"},
      {"F2", "B'"}, {"R2", "D2", "U2"} }

InitGraph ==
    /\ dims \in GraphDims
    /\ permitted_movements \in GraphPermitted
    /\ order \in (IF permitted_movements = None THEN {<<>>} ELSE Orders(permitted_movements))
    /\ LET rc == from_dims(dims, permitted_movements)
       IN  /\ queue = <<rc>>
           /\ g = [nodes |-> <<rc>>, adj |-> <<>>, id |-> <<>>]
           /\ current_rc = rc
    /\ m_idx = 0
    /\ pc = "while"
    /\ file = <<>>
    /\ DriverIdle
    /\ RotIdle

\* while queue: current_rc = queue.pop(), and the for loop is entered.
\* Iterating over None raises TypeError.
Pop ==
    /\ pc = "while"
    /\ queue # <<>>
    /\ current_rc' = queue[Len(queue)]
    /\ queue' = SubSeq(queue, 1, Len(queue) - 1)
    /\ m_idx' = 1
    /\ pc' = IF permitted_movements = None THEN "raised"
             ELSE IF order = <<>> THEN "while" ELSE "for"
    /\ UNCHANGED <<dims, permitted_movements, g, order, file, driverVars, rotVars>>

\* One iteration of for m in permitted_movements
Expand ==
    /\ pc = "for"
    /\ LET m == order[m_idx]
           r == make_movements(current_rc, m)
           s == GraphStep(g, queue, current_rc, m, r.rc)
       IN  IF r.err # "none"
           THEN /\ pc' = "raised"
                /\ UNCHANGED <<g, queue, m_idx>>
           ELSE /\ Len(s.g.nodes) <= MaxNodes
                /\ g' = s.g
                /\ queue' = s.queue
                /\ m_idx' = m_idx + 1
                /\ pc' = IF m_idx = Len(order) THEN "while" ELSE "for"
    /\ UNCHANGED <<dims, permitted_movements, current_rc, order, file, driverVars, rotVars>>

\* Mutant of AssignIds: the ids are counted from 1.
AssignIds_from1 ==
    /\ pc = "while"
    /\ queue = <<>>
    /\ \E p \in Permutations(1..Len(g.nodes)) :
           g' = [g EXCEPT !.id = [i \in 1..Len(g.nodes) |-> p[i]]]
    /\ pc' = "done"
    /\ UNCHANGED <<dims, permitted_movements, queue, current_rc, order, m_idx,
                   file, driverVars, rotVars>>

\* The queue is empty: the nodes are sorted by hash and numbered
AssignIds ==
    /\ pc = "while"
    /\ queue = <<>>
    /\ \E p \in Permutations(1..Len(g.nodes)) :
           g' = [g EXCEPT !.id = [i \in 1..Len(g.nodes) |-> p[i] - 1]]
    /\ pc' = "done"
    /\ UNCHANGED <<dims, permitted_movements, queue, current_rc, order, m_idx,
                   file, driverVars, rotVars>>

\* complex_graph[n]: the neighbours of node i of the graph, as node positions
Neighbours(gr, i) ==
    {j \in 1..Len(gr.nodes) : {gr.nodes[i], gr.nodes[j]} \in DOMAIN gr.adj}

\* make_simple_graph: the dictionary from node id to the ids of its neighbours
make_simple_graph(complex_graph) ==
    [n_id \in {complex_graph.id[i] : i \in 1..Len(complex_graph.nodes)} |->
        LET i == CHOOSE i \in 1..Len(complex_graph.nodes) : complex_graph.id[i] = n_id
        IN  {complex_graph.id[j] : j \in Neighbours(complex_graph, i)}]

\* sort_list: the numbers of a collection in ascending order
RECURSIVE sort_list(_)
sort_list(other) ==
    IF other = {} THEN <<>>
    ELSE LET x == CHOOSE x \in other : \A y \in other : x <= y
         IN  <<x>> \o sort_list(other \ {x})

\* Mutant of EdgeLines: the line is written without the test u < v.
RECURSIVE EdgeLines_nofilter(_, _)
EdgeLines_nofilter(simple_graph, us) ==
    IF us = <<>> THEN <<>>
    ELSE LET u == Head(us)
             vs == sort_list(simple_graph[u])
         IN  [k \in 1..Len(vs) |-> <<u, vs[k]>>] \o EdgeLines_nofilter(simple_graph, Tail(us))

\* generate_file: the two nested loops, one line "u v" per pair with u < v
RECURSIVE EdgeLines(_, _)
EdgeLines(simple_graph, us) ==
    IF us = <<>> THEN <<>>
    ELSE LET u == Head(us)
             vs == SelectSeq(sort_list(simple_graph[u]), LAMBDA v : u < v)
         IN  [k \in 1..Len(vs) |-> <<u, vs[k]>>] \o EdgeLines(simple_graph, Tail(us))

\* generate_file: the lines written, each the numbers it holds; the first
\* is "len(g.nodes) len(g.edges)"
generate_file(gr) ==
    LET simple_graph == make_simple_graph(gr)
    IN  << <<Len(gr.nodes), Cardinality(DOMAIN gr.adj)>> >>
            \o EdgeLines(simple_graph, sort_list(DOMAIN simple_graph))

\* generate_file(make_graph(dims, permitted_movements))
GenerateFile ==
    /\ pc = "done"
    /\ file' = generate_file(g)
    /\ pc' = "written"
    /\ UNCHANGED <<dims, permitted_movements, g, queue, current_rc, order, m_idx,
                   driverVars, rotVars>>

NextGraph == Pop \/ Expand \/ AssignIds \/ GenerateFile

SpecGraph == InitGraph /\ [][NextGraph]_vars


---------------------------------------------------------------------------
(* The explorer under any frontier discipline: queue.pop(i) for any       *)
(* position i of the frontier (i = -1 is the code's last-in-first-out, *)
(* i = 0 is first-in-first-out), the rest of make_graph as it is.         *)

\* current_rc = queue.pop(i - 1)
PopAt(i) ==
    /\ pc = "while"
    /\ queue # <<>>
    /\ current_rc' = queue[i]
    /\ queue' = SubSeq(queue, 1, i - 1) \o SubSeq(queue, i + 1, Len(queue))
    /\ m_idx' = 1
    /\ pc' = IF permitted_movements = None THEN "raised"
             ELSE IF order = <<>> THEN "while" ELSE "for"
    /\ UNCHANGED <<dims, permitted_movements, g, order, file, driverVars, rotVars>>

NextGraphAny == (\E i \in 1..Len(queue) : PopAt(i)) \/ Expand \/ AssignIds

SpecGraphAny == InitGraph /\ [][NextGraphAny]_vars

---------------------------------------------------------------------------
(* Properties of the rotation run (SpecRotate) *)

\* C1: quarter-turn identity.  For every cuboid, face and reachable
\* configuration, rotate(k) applies, and rotate(k) followed by
\* rotate((4 - k) mod 4) on the same face restores the six grids.
C1_QuarterTurnIdentity ==
    /\ ~raised
    /\ (nseq = 2 /\ turns = 0) => face_rc.grids = base

\* C3: turn amounts on one face compose additively modulo 4.  After two or
\* more rotate calls on one face, no call has raised and the six grids are
\* those that one rotate by the sum of the amounts modulo 4 gives.
C3_TurnsComposeModulo4 ==
    nseq >= 2 =>
        /\ ~raised
        /\ LET r == rotate(base, face_rc.wire, face, turns)
           IN  r.ok /\ face_rc.grids = r.grids

\* A face whose grid is square
IsSquare(grid) == Height(grid) = Width(grid)

\* What holds of the code in place of C1 and C3.  A rotate call raises
\* exactly when it is an odd number of quarter turns of a face that is not
\* square; as long as none has raised, the grids are those of one rotate by
\* the sum of the amounts modulo 4 (the original grids when the sum is 0).
RotateWhereApplicable ==
    /\ raised => (~IsSquare(base[face]) /\ turns % 2 = 1)
    /\ (~raised /\ nseq >= 1) =>
           /\ face_rc.grids = rotate(base, face_rc.wire, face, turns).grids
           /\ turns = 0 => face_rc.grids = base
    /\ (~raised /\ ~IsSquare(face_rc.grids["up"])) =>
           ~rotate(face_rc.grids, face_rc.wire, "up", 1).ok

---------------------------------------------------------------------------
(* Properties of the driver (Spec) *)

\* The number of facelets of each color over the six grids
ColorCount(grids) ==
    [c \in Color |->
        Cardinality({cell \in UNION {{<<f, i, j>> : i \in 1..Height(grids[f]),
                                                    j \in 1..Width(grids[f])} :
                                     f \in FaceNames} :
                        grids[cell[1]][cell[2]][cell[3]] = c})]

\* C2: color conservation.  Every cube that make_movements has returned
\* has the same number of facelets of each color as the cube the client
\* built, hence as the cube the moves were applied to.
C2_ColorConservation ==
    \A k \in DOMAIN heap : ColorCount(View(heap, k)) = ColorCount(View(heap, 1))

\* Witness of C2: a call returned a cube whose grids differ from the
\* receiver's, so a move has permuted facelets.
C2_Witness ==
    /\ Len(heap) >= 2
    /\ err = "none"
    /\ View(heap, 2) # View(heap, 1)
    /\ dims = <<2, 2, 2>>
    /\ permitted_movements = None

\* C4: only the moves of the supplied set are applied.  For a cube built
\* with a set P of moves (the empty set included), a move outside P fails
\* with the not-permitted error on every cube of the run and changes nothing.
C4_OnlySuppliedMovesApply ==
    permitted_movements # None =>
        \A r \in DOMAIN heap : \A movement \in CubeMove \ permitted_movements :
            LET out == _make_a_move_from_cube_move(heap, r, movement)
            IN  out.err = "NotPermittedMovementError" /\ out.heap = heap

\* C5: make_movements never alters the cube it is called on.  Every call,
\* whatever its form and whether it returns or raises, leaves every cube
\* the client already holds as it was: grids, wiring and permitted set.
C5_ReceiverUnaltered ==
    [][\A k \in DOMAIN heap :
           /\ k \in DOMAIN heap'
           /\ View(heap', k) = View(heap, k)
           /\ heap'[k] = heap[k]]_vars

\* Witness of C5: a call returned a new cube that differs from its
\* receiver, and a later call on the cubes held has raised inside a rotation.
C5_Witness ==
    /\ Len(heap) = 2
    /\ View(heap, 2) # View(heap, 1)
    /\ View(heap, 1) = from_dims(dims, permitted_movements).grids
    /\ err = "ValueError"
    /\ permitted_movements = None


---------------------------------------------------------------------------
(* Properties of the wiring (SpecConstruct) *)

\* The slots of a face in the order of add_faces, by the direction of each
SlotDir == <<"U", "R", "D", "L">>

SlotOf(d) == CHOOSE s \in 1..4 : SlotDir[s] = d

\* The face opposite a face of the cuboid
Opposite(f) ==
    CASE f = "up" -> "down"
      [] f = "down" -> "up"
      [] f = "left" -> "right"
      [] f = "right" -> "left"
      [] f = "front" -> "back"
      [] OTHER -> "front"

\* The shared edges of a wiring: a (face, side) pair with the pair it touches
SharedEdges(wire) ==
    {{<<A, SlotDir[s]>>, <<wire[A][s][1], wire[A][s][2]>>} : A \in FaceNames, s \in 1..4}

\* C19: the wiring is involutive and closed.  In every cube built, by
\* from_dims or from six faces of any shapes, if slot s of
\* face A holds (B, d) then slot d of B holds (A, s); no face is wired to
\* itself or to the opposite face; and the 24 (face, side) pairs are matched
\* into 12 shared edges.
C19_WiringInvolutive ==
    \A k \in DOMAIN heap :
        LET wire == heap[k].wire
        IN  /\ \A A \in FaceNames : \A s \in 1..4 :
                   LET B == wire[A][s][1]
                       d == wire[A][s][2]
                   IN  /\ B \in FaceNames /\ d \in Direc
                       /\ wire[B][SlotOf(d)] = <<A, SlotDir[s]>>
                       /\ B # A
                       /\ B # Opposite(A)
            /\ Cardinality(SharedEdges(wire)) = 12
            /\ \A e \in SharedEdges(wire) : Cardinality(e) = 2
            /\ UNION SharedEdges(wire) = FaceNames \X Direc

\* Witness of C19: a cube has been built from six faces whose shapes fit
\* no single triple of dimensions, and is wired all the same.
C19_Witness ==
    /\ Len(heap) = 1
    /\ err = "none"
    /\ Len(heap[1].grids["front"]) = 2
    /\ Len(heap[1].grids["back"]) = 1
    /\ heap[1].wire["up"][1] = <<"back", "U">>

---------------------------------------------------------------------------
(* Properties of the explorer (SpecGraph) *)

\* The number of undirected edges of the graph
EdgeCount == Cardinality(DOMAIN g.adj)

\* The move that undoes a move
Inverse(m) ==
    CASE MoveTimes(m) = 2 -> m
      [] MoveTimes(m) = 1 -> CHOOSE x \in CubeMove : MoveFace(x) = MoveFace(m) /\ MoveTimes(x) = 3
      [] OTHER -> CHOOSE x \in CubeMove : MoveFace(x) = MoveFace(m) /\ MoveTimes(x) = 1

InverseClosed(P) == \A m \in P : Inverse(m) \in P

\* The cubes reachable from those of S by sequences of moves of P
RECURSIVE Reach(_, _)
Reach(S, P) ==
    LET T == S \cup {make_movements(x[1], x[2]).rc :
                        x \in {y \in S \X P : make_movements(y[1], y[2]).err = "none"}}
    IN  IF T = S THEN S ELSE Reach(T, P)

\* The nodes of the graph, as a set
NodeSet == {g.nodes[i] : i \in 1..Len(g.nodes)}

\* C6: graph closure.  When make_graph returns, every move of the
\* permitted_movements argument applied to every node gives a configuration
\* equal to a node of the graph, and the graph has an edge between the two.
C6_GraphClosure ==
    pc = "done" =>
        \A n \in NodeSet : \A m \in permitted_movements :
            LET r == make_movements(n, m)
            IN  /\ r.err = "none"
                /\ InNodes(g.nodes, r.rc)
                /\ {n, NodeOf(g.nodes, r.rc)} \in DOMAIN g.adj

\* Witness of C6: make_graph has returned a graph of several nodes and edges
\* for a permitted set of more than one move.
C6_Witness ==
    /\ pc = "done"
    /\ permitted_movements # None
    /\ Cardinality(permitted_movements) >= 2
    /\ Len(g.nodes) >= 4
    /\ EdgeCount >= 4

EdgesWith(n, m) == {e \in DOMAIN g.adj : n \in e /\ m \in g.adj[e]}

\* C9: dimensions (2,2,1) with {U2, R2}.  In the finished graph every
\* node n and permitted move m have exactly one transition: m(n) is a node,
\* the one edge at n that carries m joins n and m(n), and m applied to m(n)
\* gives a configuration equal to n.
C9_Involutions ==
    (dims = <<2, 2, 1>> /\ permitted_movements = {"U2", "R2"} /\ pc = "done") =>
        \A n \in NodeSet : \A m \in permitted_movements :
            LET r == make_movements(n, m)
            IN  /\ r.err = "none"
                /\ InNodes(g.nodes, r.rc)
                /\ EdgesWith(n, m) = {{n, NodeOf(g.nodes, r.rc)}}
                /\ make_movements(r.rc, m).err = "none"
                /\ CubeEq(make_movements(r.rc, m).rc, n)

\* Witness of C9: the run of dimensions (2,2,1) with {U2, R2} has returned a
\* graph of more than one node.
C9_Witness ==
    /\ dims = <<2, 2, 1>>
    /\ permitted_movements = {"U2", "R2"}
    /\ pc = "done"
    /\ Len(g.nodes) = 6
    /\ EdgeCount = 6

\* C10: exploration terminates with the reachable set.  For every
\* dimension triple and permitted set, make_graph does not end by an
\* error, and when its loop has exited the nodes are exactly the
\* configurations reachable from the solved cube by the permitted moves.
C10_TerminatesWithReachableSet ==
    permitted_movements # None =>
        /\ pc # "raised"
        /\ pc = "done" =>
               {hash(n) : n \in NodeSet}
                   = {hash(c) : c \in Reach({from_dims(dims, permitted_movements)},
                                             permitted_movements)}

\* What holds of the code in place of C10: a run that has not raised and
\* has returned holds exactly the reachable configurations.
ReturnedGraphIsReachableSet ==
    (permitted_movements # None /\ pc = "done") =>
        {hash(n) : n \in NodeSet}
            = {hash(c) : c \in Reach({from_dims(dims, permitted_movements)},
                                      permitted_movements)}

\* C11: no configuration is expanded twice.  At every step every frontier
\* element is a node of the graph, the frontier holds no two equal cubes and
\* the cube being expanded is a node outside the frontier; a step pushes
\* only cubes that were not nodes before it, and no node is ever removed.
\* A cube is a node from its first push on, so it is pushed at most once,
\* and a popped cube, which stays a node, is never pushed or popped again.
C11_NoDoubleExpansion ==
    /\ [](/\ \A i \in 1..Len(queue) : InNodes(g.nodes, queue[i])
          /\ \A i, j \in 1..Len(queue) : CubeEq(queue[i], queue[j]) => i = j
          /\ InNodes(g.nodes, current_rc)
          /\ pc = "for" => \A i \in 1..Len(queue) : ~CubeEq(queue[i], current_rc))
    /\ [][/\ Len(g'.nodes) >= Len(g.nodes)
          /\ \A i \in 1..Len(g.nodes) : g'.nodes[i] = g.nodes[i]
          /\ \A i \in 1..Len(queue') :
                 i > Len(queue) =>
                     /\ ~InNodes(g.nodes, queue'[i])
                     /\ InNodes(g'.nodes, queue'[i])
          /\ Len(queue') < Len(queue) =>
                 /\ queue' = SubSeq(queue, 1, Len(queue) - 1)
                 /\ current_rc' = queue[Len(queue)]]_vars

\* Witness of C11: a move has led from the cube being expanded to a cube
\* that was a node already, a cycle is closed, and the frontier is not empty.
C11_Witness ==
    /\ pc = "while"
    /\ Len(queue) >= 1
    /\ EdgeCount >= Len(g.nodes)
    /\ Len(g.nodes) >= 4

\* C13: no error during exploration.  For every dimension triple and
\* every permitted set of defined moves, quarter turns included, make_graph
\* never raises: every move it applies is accepted and completes.
C13_NoErrorDuringExploration ==
    (permitted_movements # None /\ permitted_movements \subseteq CubeMove) =>
        pc # "raised"

\* The cubes the explorer holds: the nodes, the frontier and the cube expanded
Held == NodeSet \cup {queue[i] : i \in 1..Len(queue)} \cup {current_rc}

\* C14: node deduplication under structural equality.  Cubes that are
\* equal (their six grids agree in the order up, left, front, right, back,
\* down) have equal hashes, equality is agreement of the six grids and of
\* nothing else, and at every step no two nodes of the graph have the same
\* six grids, also when a configuration is reached by several sequences.
C14_NodeDeduplication ==
    /\ \A a, b \in Held :
           /\ CubeEq(a, b) <=> a.grids = b.grids
           /\ CubeEq(a, b) => hash(a) = hash(b)
    /\ \A i, j \in 1..Len(g.nodes) :
           g.nodes[i].grids = g.nodes[j].grids => i = j

\* Witness of C14: in a returned graph of several nodes, two moves lead
\* from one node to the same other node, which is a node once.
C14_Witness ==
    /\ pc = "done"
    /\ Len(g.nodes) >= 2
    /\ \E e \in DOMAIN g.adj : Cardinality(e) = 2 /\ Cardinality(g.adj[e]) >= 2

\* The ids of the two end nodes of an edge
EdgeIds(e) == {g.id[i] : i \in {j \in 1..Len(g.nodes) : g.nodes[j] \in e}}

C16_EmptyPermittedSet ==
    permitted_movements = {} =>
        /\ pc \in {"while", "done", "written"}
        /\ Len(g.nodes) = 1
        /\ g.nodes[1].grids = from_dims(dims, permitted_movements).grids
        /\ EdgeCount = 0
        /\ m_idx <= 1
        /\ pc \in {"done", "written"} => (queue = <<>> /\ g.id = <<0>>)

\* Witness of C16: make_graph given the empty set has returned.
C16_Witness ==
    /\ permitted_movements = {}
    /\ pc = "done"
    /\ dims = <<3, 3, 3>>

\* Move m leads from node u to node v
Leads(m, u, v) ==
    LET r == make_movements(u, m)
    IN  r.err = "none" /\ CubeEq(r.rc, v)

\* C18: edge labels are exact.  In the returned graph every edge carries
\* a non-empty set of permitted moves; a permitted move is in the set of the
\* edge {u, v} exactly when it leads from u to v or from v to u; and every
\* transition of a permitted move from a node is in the set of some edge.
C18_EdgeLabelsExact ==
    pc = "done" =>
        /\ \A e \in DOMAIN g.adj :
               /\ g.adj[e] # {}
               /\ g.adj[e] \subseteq permitted_movements
               /\ e \subseteq NodeSet
               /\ \A m \in permitted_movements :
                      m \in g.adj[e] <=>
                          \E u, v \in e : e = {u, v} /\ Leads(m, u, v)
        /\ \A u \in NodeSet : \A m \in permitted_movements :
               \E e \in DOMAIN g.adj :
                   /\ u \in e
                   /\ m \in g.adj[e]
                   /\ \E v \in e : e = {u, v} /\ Leads(m, u, v)

\* Witness of C18: a returned graph with an edge {u, v} whose set holds a
\* move that leads from u to v and not from v to u.
C18_Witness ==
    /\ pc = "done"
    /\ \E e \in DOMAIN g.adj : \E m \in g.adj[e] : \E u, v \in e :
           /\ e = {u, v}
           /\ Leads(m, u, v)
           /\ ~Leads(m, v, u)
    /\ Cardinality(permitted_movements) >= 2

---------------------------------------------------------------------------
(* Properties of construction (SpecConstruct) *)

\* The shape of a grid; an empty array counts as 0 by 0
Shape(grid) == IF grid = <<>> THEN <<0, 0>> ELSE <<Len(grid), Len(grid[1])>>

\* The six shapes are those of one (height, width, length) of positive numbers
ConsistentShapes(grids) ==
    \E height \in 1..2, width \in 1..2, length \in 1..2 :
        /\ Shape(grids["front"]) = <<height, width>>
        /\ Shape(grids["back"]) = <<height, width>>
        /\ Shape(grids["left"]) = <<height, length>>
        /\ Shape(grids["right"]) = <<height, length>>
        /\ Shape(grids["up"]) = <<length, width>>
        /\ Shape(grids["down"]) = <<length, width>>

\* C17: dimension validation.  A construction with a non-positive
\* dimension, or from faces whose shapes fit no (height, width, length),
\* ends with the invalid-dimension error, and every cube that exists has six
\* shapes consistent with one triple of positive dimensions.
C17_DimensionValidation ==
    /\ \A k \in DOMAIN heap : ConsistentShapes(View(heap, k))
    /\ (\E i \in 1..3 : dims[i] <= 0) => err = "InvalidDimensionError"

---------------------------------------------------------------------------
(* Properties of the explorer under any frontier discipline (SpecGraphAny) *)

\* The graph of the permitted moves on the reachable configurations, which
\* depends on the dimensions and the permitted set only
CanonNodes == Reach({from_dims(dims, permitted_movements)}, permitted_movements)

CanonEdges ==
    {{x[1], make_movements(x[1], x[2]).rc} : x \in CanonNodes \X permitted_movements}

CanonLabel(e) ==
    {m \in permitted_movements : \E n \in e : {n, make_movements(n, m).rc} = e}

\* C12: the frontier discipline does not change the result.  Whatever
\* position of the frontier each pop takes (last, first or any other), the
\* returned graph has the same nodes, the same undirected edges and the same
\* move set on every edge: those fixed by the dimensions and the permitted set.
\* The graph is final when the loop exits; the ids assigned after it change
\* neither nodes nor edges.
C12_FrontierDiscipline ==
    (pc = "while" /\ queue = <<>>) =>
        /\ NodeSet = CanonNodes
        /\ Cardinality(NodeSet) = Len(g.nodes)
        /\ DOMAIN g.adj = CanonEdges
        /\ \A e \in DOMAIN g.adj : g.adj[e] = CanonLabel(e)

\* Witness of C12: a final graph of six nodes whose fourth node is the one
\* first-in-first-out discovers fourth, R2 of U2 of the solved cube, where
\* last-in-first-out discovers U2 of R2 of the solved cube.
C12_Witness ==
    /\ pc = "while"
    /\ queue = <<>>
    /\ dims = <<2, 2, 1>>
    /\ order = <<"U2", "R2">>
    /\ Len(g.nodes) = 6
    /\ g.nodes[4] = make_movements(make_movements(g.nodes[1], "U2").rc, "R2").rc
    /\ g.nodes[4] # make_movements(make_movements(g.nodes[1], "R2").rc, "U2").rc

---------------------------------------------------------------------------
(* Frame of a rotation (SpecRotate) *)

\* Cell (r, c) of a grid lies in the row or column a slice selects
InSlice(grid, s, r, c) ==
    IF s.axis = "row"
    THEN r = (IF s.last THEN Height(grid) ELSE 1)
    ELSE c = (IF s.last THEN Width(grid) ELSE 1)

\* C20: frame of a rotation.  A call of rotate on face X, whether it
\* completes or raises, leaves the grid of the face opposite X as it was; in
\* each of the four neighbours of X it leaves the shape and every cell
\* outside the one border row or column that touches X as they were; and it
\* leaves the wiring (links and stored directions) and the permitted set of
\* the cube as they were.
C20_RotationFrame ==
    [][LET X == face'
           old == face_rc.grids
           new == face_rc'.grids
           wire == face_rc.wire
       IN  /\ face_rc'.wire = wire
           /\ face_rc'.permitted_movements = face_rc.permitted_movements
           /\ new[Opposite(X)] = old[Opposite(X)]
           /\ \A i \in 1..4 :
                  LET B == wire[X][i][1]
                      d == wire[X][i][2]
                  IN  /\ wire[B][SlotOf(d)][1] = X
                      /\ Height(new[B]) = Height(old[B])
                      /\ Width(new[B]) = Width(old[B])
                      /\ \A r \in 1..Height(old[B]) : \A c \in 1..Width(old[B]) :
                             ~InSlice(old[B], generate_slice(d), r, c) =>
                                 new[B][r][c] = old[B][r][c]]_vars

\* Witness of C20: faces of the 3x3x3 cube have been turned, so that strips
\* of neighbours with cells outside them have been written.
C20_Witness ==
    /\ dims = <<3, 3, 3>>
    /\ nturn >= 2
    /\ ~raised
    /\ face_rc.grids # from_dims(dims, permitted_movements).grids

---------------------------------------------------------------------------
(* Cubie integrity on cubic puzzles (SpecRotate) *)

\* The border of a face on the side of slot s, read as the slice of the
\* slot's direction: the row left to right, the column top to bottom
OwnBorder(grids, f, s) == getitem(grids[f], generate_slice(SlotDir[s]))

\* The colour of the face opposite the face of colour c in the solved cube
OppositeColor(c) ==
    FaceColor[Opposite(CHOOSE f \in FaceNames : FaceColor[f] = c)]

\* C21: cubie integrity on a cubic puzzle.  In every configuration that
\* rotations reach from the solved (n, n, n) cube, position i of each
\* face's border and position i of the strip of the neighbour on that side,
\* as wiring and reversal rules give it, hold two different colours that are
\* not the colours of two opposite faces.
C21_CubieIntegrity ==
    (dims[1] = dims[2] /\ dims[2] = dims[3]) =>
        /\ ~raised
        /\ \A f \in FaceNames : \A s \in 1..4 :
               LET own == OwnBorder(face_rc.grids, f, s)
                   other == pieces(face_rc.grids, face_rc.wire, f)[s]
               IN  /\ Len(own) = Len(other)
                   /\ \A i \in 1..Len(own) :
                          /\ own[i] # other[i]
                          /\ own[i] # OppositeColor(other[i])

\* Witness of C21: three turns of the 3x3x3 cube have left a face with a
\* border row of three different colours.
C21_Witness ==
    /\ dims = <<3, 3, 3>>
    /\ nturn = 3
    /\ ~raised
    /\ \E f \in FaceNames :
           Cardinality({face_rc.grids[f][1][c] : c \in 1..3}) = 3

============================================================================
